---- MODULE Spec2Model ----
(***************************************************************************)
(* Model of the WAF rule-synchronization engine of python_script/automation *)
(* (main.py and modules/rule_processor.py, file_operations.py,              *)
(* metadata_processor.py, modsec_rule_updater.py).                          *)
(*                                                                          *)
(* Text is modelled at the level of the tokens the program's regular        *)
(* expressions look for.  A line is a sequence of tokens, a rule block and  *)
(* a file are sequences of lines.  Identifiers are sequences of decimal     *)
(* digits, so that startswith('999') and the "999" + id concatenation are   *)
(* computed, not assumed.                                                   *)
(***************************************************************************)
EXTENDS Integers, Sequences, FiniteSets, TLC

(***************************************************************************)
(* Bounds of the model.                                                     *)
(***************************************************************************)
MaxSrcLines == 2
MaxIdLen == 5
MaxPasses == 2

(***************************************************************************)
(* Program constants.                                                       *)
(***************************************************************************)
attack_threshold == 50
min_tier == 3

(***************************************************************************)
(* Identifiers: strings of decimal digits.                                  *)
(***************************************************************************)
Prefix999 == <<9, 9, 9>>

StartsWith999(s) == Len(s) >= 3 /\ SubSeq(s, 1, 3) = Prefix999

ID_A == <<9, 4, 2, 1, 0, 0>>
ID_B == <<9, 4, 2, 2, 0, 0>>
ID_C == <<9, 4, 2, 0, 0, 1>>
ID_999A == Prefix999 \o ID_A

(* generate_custom_rule_id, with the startswith('999') test dropped *)
generate_custom_rule_id_always(original_id) == Prefix999 \o original_id

generate_custom_rule_id(original_id) ==
    IF StartsWith999(original_id) THEN original_id ELSE Prefix999 \o original_id

(***************************************************************************)
(* Tokens.  k is the kind of the token:                                     *)
(*   "ws"        leading or trailing whitespace of a line                   *)
(*   "hash"      the '#' that starts a comment                              *)
(*   "SecRule"   the text SecRule at the start of a directive               *)
(*   "SecAction" the head of another directive (SecAction, SecMarker ...)   *)
(*   "text"      any other text of a rule (operators, phase, a trailing \)  *)
(*   "id"        id:<num>, or with white space around the colon (val "ws")  *)
(*   "pl"        tag:'paranoia-level/<lvl>'                                 *)
(*   "sev"       severity:'<val>'                                           *)
(*   "setvar"    setvar:'tx.inbound_anomaly_score_pl<lvl>=+<val>', val is   *)
(*               "expr" for %{tx.<x>_anomaly_score} or the digit written    *)
(*   "prov"      # Rule <num> (Original: <num2>)                            *)
(*   "marker"    SecMarker "END-REQUEST-942-APPLICATION-ATTACK-SQLI"        *)
(*   "excl"      SecRuleRemoveById <num>                                    *)
(***************************************************************************)
Tok(k, num, num2, lvl, val) ==
    [k |-> k, num |-> num, num2 |-> num2, lvl |-> lvl, val |-> val]

T_ws == Tok("ws", <<>>, <<>>, 0, "")
T_hash == Tok("hash", <<>>, <<>>, 0, "")
T_SecRule == Tok("SecRule", <<>>, <<>>, 0, "")
T_SecAction == Tok("SecAction", <<>>, <<>>, 0, "")
T_text == Tok("text", <<>>, <<>>, 0, "")
T_id(n) == Tok("id", n, <<>>, 0, "")
T_idws(n) == Tok("id", n, <<>>, 0, "ws")
T_pl(l) == Tok("pl", <<>>, <<>>, l, "")
T_sev(v) == Tok("sev", <<>>, <<>>, 0, v)
T_setvar(l, v) == Tok("setvar", <<>>, <<>>, l, v)
T_prov(custom, orig) == Tok("prov", custom, orig, 0, "")
T_marker == Tok("marker", <<>>, <<>>, 0, "")
T_excl(n) == Tok("excl", n, <<>>, 0, "")

(***************************************************************************)
(* Sequence helpers.                                                        *)
(***************************************************************************)
RECURSIVE Flatten(_)
Flatten(ss) == IF ss = <<>> THEN <<>> ELSE Head(ss) \o Flatten(Tail(ss))

SeqsUpTo(S, n) == UNION {[1..m -> S] : m \in 0..n}

IsPrefix(s, t) == Len(s) <= Len(t) /\ SubSeq(t, 1, Len(s)) = s

Positions(s, P(_)) == {i \in 1..Len(s) : P(s[i])}

Min(S) == CHOOSE x \in S : \A y \in S : x <= y

(* str.strip() on a line: leading and trailing white space removed *)
RECURSIVE LStrip(_)
LStrip(line) ==
    IF line # <<>> /\ Head(line).k = "ws" THEN LStrip(Tail(line)) ELSE line

RECURSIVE RStrip(_)
RStrip(line) ==
    IF line # <<>> /\ line[Len(line)].k = "ws"
    THEN RStrip(SubSeq(line, 1, Len(line) - 1))
    ELSE line

Strip(line) == RStrip(LStrip(line))

StartsWithHash(line) == line # <<>> /\ Head(line).k = "hash"
StartsWithSecRule(line) == line # <<>> /\ Head(line).k = "SecRule"

(***************************************************************************)
(* rule_processor.adjust_anomaly_score                                      *)
(***************************************************************************)
(* str.lower() on the severity words of the model *)
Lower(v) ==
    CASE v = "CRITICAL" -> "critical"
      [] v = "WARNING" -> "warning"
      [] v = "ERROR" -> "error"
      [] v = "NOTICE" -> "notice"
      [] v = "INFO" -> "info"
      [] OTHER -> v

(* the weights with critical and notice exchanged *)
SeverityWeightSwapped(severity) ==
    CASE severity = "critical" -> "0"
      [] severity \in {"warning", "error"} -> "1"
      [] severity = "notice" -> "2"
      [] OTHER -> "none"

(* the if / elif chain of adjust_anomaly_score: the constant written, or
   "none" when no branch is taken *)
SeverityWeight(severity) ==
    CASE severity = "critical" -> "2"
      [] severity \in {"warning", "error"} -> "1"
      [] severity = "notice" -> "0"
      [] OTHER -> "none"

IsSev(t) == t.k = "sev"
IsPl34(t) == t.k = "pl" /\ t.lvl \in {3, 4}
IsIncrement(t) == t.k = "setvar" /\ t.lvl \in {3, 4} /\ t.val = "expr"

MapTokens(rule, F(_)) ==
    [i \in 1..Len(rule) |-> [j \in 1..Len(rule[i]) |-> F(rule[i][j])]]

adjust_anomaly_score(rule) ==
    LET toks == Flatten(rule)
        sevs == Positions(toks, IsSev)
        pls == Positions(toks, IsPl34)
    IN  IF sevs # {} /\ pls # {}
        THEN LET severity == Lower(toks[Min(sevs)].val)
                 pl_value == toks[Min(pls)].lvl
                 w == SeverityWeight(severity)
                 Sub(t) == IF IsIncrement(t) THEN T_setvar(pl_value, w) ELSE t
             IN  IF w = "none" THEN rule ELSE MapTokens(rule, Sub)
        ELSE rule

(***************************************************************************)
(* rule_processor.extract_paranoia_rules                                    *)
(***************************************************************************)
(* the block scan: st is [rules, buffer] *)
ScanLine(st, raw) ==
    LET line == Strip(raw)
    IN  IF StartsWithHash(line) \/ line = <<>>
        THEN st
        ELSE LET flushed == IF StartsWithSecRule(line) /\ st.buffer # <<>>
                            THEN [rules |-> Append(st.rules, st.buffer), buffer |-> <<>>]
                            ELSE st
             IN  IF StartsWithSecRule(line) \/ flushed.buffer # <<>>
                 THEN [flushed EXCEPT !.buffer = Append(@, line)]
                 ELSE flushed

RECURSIVE ScanLines(_, _)
ScanLines(st, lines) ==
    IF lines = <<>> THEN st ELSE ScanLines(ScanLine(st, Head(lines)), Tail(lines))

(* the scan without the flush of the buffer at the end of the input *)
ParseBlocksNoFlush(lines) ==
    ScanLines([rules |-> <<>>, buffer |-> <<>>], lines).rules

ParseBlocks(lines) ==
    LET st == ScanLines([rules |-> <<>>, buffer |-> <<>>], lines)
    IN  IF st.buffer # <<>> THEN Append(st.rules, st.buffer) ELSE st.rules

IsId(t) == t.k = "id"
IsIdNoWs(t) == t.k = "id" /\ t.val = ""

(* re.search(r"tag:'paranoia-level/[34]'", rule) *)
HasTier34(rule) == Positions(Flatten(rule), IsPl34) # {}

(* re.search(r"id\s*:\s*(\d+)", rule): the set holding the first match *)
IdSearch(rule) ==
    LET toks == Flatten(rule)
        ids == Positions(toks, IsId)
    IN  IF ids = {} THEN {} ELSE {toks[Min(ids)].num}

(* re.sub(r'id:\d+', f'id:{custom_id}', rule) *)
SubId(rule, custom_id) ==
    LET Sub(t) == IF IsIdNoWs(t) THEN T_id(custom_id) ELSE t
    IN  MapTokens(rule, Sub)

(* the skip of an identifier that is already custom, never taken *)
SkipAlreadyCustomNever(original_id) == FALSE

SkipAlreadyCustom(original_id) == StartsWith999(original_id)

(* one iteration of the loop over the blocks: the records emitted by it *)
EmitRule(rule) ==
    IF HasTier34(rule) /\ IdSearch(rule) # {}
    THEN LET original_id == CHOOSE x \in IdSearch(rule) : TRUE
             custom_id == generate_custom_rule_id(original_id)
             namespaced == SubId(rule, custom_id)
         IN  IF SkipAlreadyCustom(original_id)
             THEN <<>>
             ELSE << [original_id |-> original_id,
                      custom_id |-> custom_id,
                      rule |-> rule,
                      namespaced |-> namespaced,
                      adjusted_rule |-> adjust_anomaly_score(namespaced)] >>
    ELSE <<>>

RECURSIVE EmitRules(_)
EmitRules(rules) ==
    IF rules = <<>> THEN <<>> ELSE EmitRule(Head(rules)) \o EmitRules(Tail(rules))

(* result[custom_id] = adjusted_rule, in the order of the blocks.  A dict is
   [keys: the keys in insertion order, val: key -> value] *)
EmptyDict == [keys |-> <<>>, val |-> <<>>]

InDict(key, d) == \E i \in 1..Len(d.keys) : d.keys[i] = key

KeyIndex(key, d) == CHOOSE i \in 1..Len(d.keys) : d.keys[i] = key

DictGet(d, key) == d.val[KeyIndex(key, d)]

DictPut(d, key, v) ==
    IF InDict(key, d)
    THEN [d EXCEPT !.val[KeyIndex(key, d)] = v]
    ELSE [keys |-> Append(d.keys, key), val |-> Append(d.val, v)]

RECURSIVE BuildResult(_, _)
BuildResult(d, recs) ==
    IF recs = <<>> THEN d
    ELSE BuildResult(DictPut(d, Head(recs).custom_id, Head(recs).adjusted_rule), Tail(recs))

(* file is [readable, lines]; an unreadable file raises inside the try and
   the except returns {} *)
extract_trace(file) ==
    IF file.readable THEN EmitRules(ParseBlocks(file.lines)) ELSE <<>>

extract_paranoia_rules(file) == BuildResult(EmptyDict, extract_trace(file))

(***************************************************************************)
(* metadata_processor.target_metadata                                       *)
(* es_response is [ok, hits]; a hit is [target, rules]; a rule entry is     *)
(* [has_id, rule_id, pl_kind, paranoia_level, severity] where pl_kind is    *)
(* "int" (a number or a numeric string), "missing" (no key: the default 0), *)
(* "text" (int() raises ValueError) or "null" (int() raises TypeError).     *)
(***************************************************************************)
RuleData(rule_id, lvl, sev) ==
    [has_id |-> TRUE, rule_id |-> rule_id, pl_kind |-> "int",
     paranoia_level |-> lvl, severity |-> sev]

CountTargets(hits, v) == Cardinality({i \in 1..Len(hits) : hits[i].target = v})

(* round(x, 2) of x = 100 * n / d, in hundredths, ties to even *)
RoundHundredths(n, d) ==
    LET q == (n * 10000) \div d
        r == (n * 10000) % d
    IN  IF 2 * r > d \/ (2 * r = d /\ q % 2 = 1) THEN q + 1 ELSE q

target_metadata(response) ==
    LET total == Len(response.hits)
        attacks == CountTargets(response.hits, 1)
        normals == CountTargets(response.hits, 0)
    IN  [total_records |-> total,
         attack_count |-> attacks,
         normal_count |-> normals,
         attack_percentage |-> IF total > 0 THEN RoundHundredths(attacks, total) ELSE 0,
         normal_percentage |-> IF total > 0 THEN RoundHundredths(normals, total) ELSE 0]

(***************************************************************************)
(* metadata_processor.rules_metadata                                        *)
(* targeted_rules maps a key to a rule_info OBJECT: the same object is      *)
(* stored under rule_id and under custom_id.  st.keys is the key order of   *)
(* the dict, st.ref[i] the object (an index of st.infos) under st.keys[i].  *)
(***************************************************************************)
RECURSIVE RulesTriggered(_)
RulesTriggered(hits) ==
    IF hits = <<>> THEN <<>>
    ELSE (IF Head(hits).rules # <<>> THEN <<Head(hits).rules>> ELSE <<>>)
         \o RulesTriggered(Tail(hits))

KeyPos(keys, key) == CHOOSE i \in 1..Len(keys) : keys[i] = key

HasKey(keys, key) == \E i \in 1..Len(keys) : keys[i] = key

(* targeted_rules[key] = object obj *)
SetKey(st, key, obj) ==
    IF HasKey(st.keys, key)
    THEN [st EXCEPT !.ref[KeyPos(st.keys, key)] = obj]
    ELSE [st EXCEPT !.keys = Append(@, key), !.ref = Append(@, obj)]

CountOf(st, rule_id) == IF InDict(rule_id, st.counts) THEN DictGet(st.counts, rule_id) ELSE 0

MetaStep(st, rule_data) ==
    IF st.raised \/ ~rule_data.has_id \/ rule_data.pl_kind = "text"
    THEN st
    ELSE IF rule_data.pl_kind = "null"
    THEN [st EXCEPT !.raised = TRUE]
    ELSE LET rule_id == rule_data.rule_id
             paranoia_level == IF rule_data.pl_kind = "missing" THEN 0
                               ELSE rule_data.paranoia_level
             custom_id == Prefix999 \o rule_id
             n == CountOf(st, rule_id) + 1
             counted == [st EXCEPT !.counts = DictPut(@, rule_id, n)]
         IN  IF paranoia_level >= min_tier
             THEN IF ~HasKey(st.keys, rule_id)
                  THEN LET obj == Len(st.infos) + 1
                           rule_info == [rule_id |-> rule_id,
                                         custom_id |-> custom_id,
                                         paranoia_level |-> paranoia_level,
                                         severity |-> rule_data.severity,
                                         count |-> n]
                           made == [counted EXCEPT !.infos = Append(@, rule_info)]
                       IN  SetKey(SetKey(made, rule_id, obj), custom_id, obj)
                  ELSE LET own == st.ref[KeyPos(st.keys, rule_id)]
                           one == [counted EXCEPT !.infos[own].count = n]
                       IN  IF HasKey(st.keys, custom_id)
                           THEN [one EXCEPT
                                   !.infos[st.ref[KeyPos(st.keys, custom_id)]].count = n]
                           ELSE one
             ELSE st

RECURSIVE MetaFold(_, _)
MetaFold(st, rules) ==
    IF rules = <<>> THEN st ELSE MetaFold(MetaStep(st, Head(rules)), Tail(rules))

(* insertion of x into a list sorted by count, largest first, after the
   elements of equal count: sorted(..., reverse=True) is stable *)
RECURSIVE InsertByCount(_, _)
InsertByCount(sorted, x) ==
    IF sorted = <<>> THEN <<x>>
    ELSE IF Head(sorted).count >= x.count
         THEN <<Head(sorted)>> \o InsertByCount(Tail(sorted), x)
         ELSE <<x>> \o sorted

RECURSIVE SortByCount(_, _)
SortByCount(acc, xs) ==
    IF xs = <<>> THEN acc ELSE SortByCount(InsertByCount(acc, Head(xs)), Tail(xs))

(* [rule for rule in targeted_rules.values() if not rule["rule_id"].startswith("999")] *)
RECURSIVE ValuesNotCustom(_, _)
ValuesNotCustom(st, i) ==
    IF i > Len(st.keys) THEN <<>>
    ELSE (IF StartsWith999(st.infos[st.ref[i]].rule_id) THEN <<>>
          ELSE <<st.infos[st.ref[i]]>>)
         \o ValuesNotCustom(st, i + 1)

rules_metadata(response) ==
    LET rules_triggered == RulesTriggered(response.hits)
        st == MetaFold([keys |-> <<>>, ref |-> <<>>, infos |-> <<>>,
                        counts |-> EmptyDict, raised |-> FALSE],
                       Flatten(rules_triggered))
    IN  IF ~response.ok \/ response.hits = <<>> \/ rules_triggered = <<>> \/ st.raised
        THEN <<>>
        ELSE SortByCount(<<>>, ValuesNotCustom(st, 1))

(***************************************************************************)
(* file_operations.get_existing_rules, save_rules_to_file                   *)
(* A file is [exists, lines].                                               *)
(***************************************************************************)
NoFile == [exists |-> FALSE, lines |-> <<>>]
FileOf(lines) == [exists |-> TRUE, lines |-> lines]

IsProv(t) == t.k = "prov"

(* the comment branch, adding only the id the comment names *)
CommentIdsOriginalOnly(original_id) == {original_id}

(* the ids a provenance comment naming original_id adds to the index *)
CommentIds(original_id) ==
    IF ~StartsWith999(original_id)
    THEN {original_id, Prefix999 \o original_id}
    ELSE {original_id}

LineIds(line) ==
    LET ids == Positions(line, IsIdNoWs)
        provs == Positions(line, IsProv)
    IN  IF ids # {} THEN {line[Min(ids)].num}
        ELSE IF provs # {} THEN CommentIds(line[Min(provs)].num2)
        ELSE {}

get_existing_rules(file) ==
    IF file.exists THEN UNION {LineIds(file.lines[i]) : i \in 1..Len(file.lines)} ELSE {}

(* file.write(f"{rule}\n\n") for every rule of the dict *)
RECURSIVE SavedLines(_)
SavedLines(rules) ==
    IF rules = <<>> THEN <<>> ELSE Head(rules) \o << <<>> >> \o SavedLines(Tail(rules))

save_rules_to_file(rules) == FileOf(SavedLines(rules.val))

(***************************************************************************)
(* main.py: the conditions and writes of one synchronization pass           *)
(***************************************************************************)
(* config.custom_rules_file is "custom_rules.conf", relative to the working
   directory; get_existing_rules() is called without a file name and reads
   custom_rules.conf in the python_script directory ("base").  The working
   directory is "base" or another directory ("other"). *)
Dirs == {"base", "other"}
IndexDir == "base"

(* the key under which the loop looks a candidate up, were it custom_id *)
LookupKeyCustom(original_id, custom_id) == custom_id

(* the key of extracted_rules used at lines 112 and 117 *)
LookupKey(original_id, custom_id) == original_id

(* the exception caught where it is raised, the pass going on *)
CaughtInMain(position) == "Diffing"

(* main has no handler: an exception raised by an open() or a write() ends
   the run, whatever the position of the pass *)
UncaughtInMain(position) == "Idle"

(* the file opened with "w" whether or not it exists *)
EnsureStoreFileTruncating(file) == FileOf(<<>>)

(* if not os.path.exists(...): open(..., "w").write("") *)
EnsureStoreFile(file) == IF file.exists THEN file ELSE FileOf(<<>>)

(* open(..., "a").write(text): a write to a file always ends the line *)
AppendLines(file, lines) == FileOf(file.lines \o lines)

(* the record written without its marker comment *)
ProvenanceLinesNone(custom_id, original_id) == << <<>> >>

(* output_file.write(f"\n# Rule {custom_id} (Original: {original_id})\n") *)
ProvenanceLines(custom_id, original_id) == << <<>>, <<T_prov(custom_id, original_id)>> >>

TerminatorLines == << <<>>, <<T_marker>> >>

(* the terminator written whether or not a rule was added *)
WritesTerminatorAlways(added) == TRUE

(* line 138: if new_rule_added *)
WritesTerminator(added) == added

(* update_rules called whether or not a rule was added *)
CallsUpdateRulesAlways(added) == TRUE

(* line 143: if new_rule_added *)
CallsUpdateRules(added) == added

(***************************************************************************)
(* modsec_rule_updater.ModSecRuleUpdater                                    *)
(* The enforcement point is an input of a call, env:                        *)
(*   docker     "running", "stopped" (inspect prints false), "missing"      *)
(*              (inspect exits non-zero) or "no_docker" (the docker command *)
(*              cannot be executed: subprocess.run raises OSError)          *)
(*   container  custom_rules.conf as "docker exec cat" prints it, NoFile    *)
(*              when that command fails                                     *)
(*   writable   the exclusion file can be opened for appending              *)
(*   reload     "ok", "fail" (apachectl exits non-zero) or "no_docker"      *)
(***************************************************************************)
(* the orders in which list(set) can hold the members of a set *)
Orders(S) ==
    {s \in [1..Cardinality(S) -> S] : \A i, j \in 1..Cardinality(S) : i # j => s[i] # s[j]}

extract_rule_ids(rule_content) ==
    LET toks == Flatten(rule_content)
        found == {toks[i].num : i \in Positions(toks, IsIdNoWs)}
    IN  found \cup {Prefix999 \o rule_id : rule_id \in {n \in found : ~StartsWith999(n)}}

RECURSIVE ConflictScan(_, _, _)
ConflictScan(rule_ids, original_ids, custom_ids) ==
    IF rule_ids = <<>> THEN TRUE
    ELSE LET rule_id == Head(rule_ids)
         IN  IF StartsWith999(rule_id)
             THEN IF SubSeq(rule_id, 4, Len(rule_id)) \in original_ids
                  THEN FALSE
                  ELSE ConflictScan(Tail(rule_ids), original_ids, custom_ids \cup {rule_id})
             ELSE IF (Prefix999 \o rule_id) \in custom_ids
                  THEN FALSE
                  ELSE ConflictScan(Tail(rule_ids), original_ids \cup {rule_id}, custom_ids)

(* the check reporting no conflict whatever the identifiers *)
check_rule_id_conflicts_none(rule_ids) == TRUE

(* True if no conflicts found, False otherwise *)
check_rule_id_conflicts(rule_ids) == ConflictScan(rule_ids, {}, {})

(* rule_id[3:] if rule_id.startswith('999') else rule_id *)
VendorForm(rule_id) ==
    IF StartsWith999(rule_id) THEN SubSeq(rule_id, 4, Len(rule_id)) ELSE rule_id

(* f"SecRuleRemoveById {original_rule_id}" in content: the text is in the
   content wherever a directive names an identifier that starts with these
   digits *)
InContent(original_rule_id, content) ==
    LET toks == Flatten(content)
    IN  \E i \in 1..Len(toks) : toks[i].k = "excl" /\ IsPrefix(original_rule_id, toks[i].num)

RECURSIVE NewExclusions(_, _)
NewExclusions(rule_ids, content) ==
    IF rule_ids = <<>> THEN <<>>
    ELSE LET original_rule_id == VendorForm(Head(rule_ids))
         IN  (IF ~InContent(original_rule_id, content)
              THEN << <<T_excl(original_rule_id)>> >>
              ELSE <<>>) \o NewExclusions(Tail(rule_ids), content)

(* returns [ok, file]: the boolean returned and the exclusion file left *)
add_rule_exclusions(rule_ids, exclusions_file, writable) ==
    IF ~exclusions_file.exists
    THEN [ok |-> FALSE, file |-> exclusions_file]
    ELSE LET new_exclusions == NewExclusions(rule_ids, exclusions_file.lines)
         IN  IF new_exclusions = <<>>
             THEN [ok |-> TRUE, file |-> exclusions_file]
             ELSE IF ~writable
                  THEN [ok |-> FALSE, file |-> exclusions_file]
                  ELSE [ok |-> TRUE,
                        file |-> AppendLines(exclusions_file, << <<>> >> \o new_exclusions)]

(* the check taking a stopped container for a running one *)
check_container_running_lenient(docker) ==
    IF docker \in {"running", "stopped"} THEN "True"
    ELSE IF docker = "missing" THEN "False"
    ELSE "raised"

(* "True", "False", or "raised" when subprocess.run raises an exception other
   than CalledProcessError *)
check_container_running(docker) ==
    IF docker = "running" THEN "True"
    ELSE IF docker \in {"stopped", "missing"} THEN "False"
    ELSE "raised"

(* the reload reporting success whatever the command did *)
reload_apache_true(reload) == "True"

(* an exception other than CalledProcessError leaves reload_apache *)
reload_apache(reload) ==
    IF reload = "ok" THEN "True"
    ELSE IF reload = "fail" THEN "False"
    ELSE "raised"

(* what a call of update_rules did: result is "True", "False", or "raised"
   when an exception leaves update_rules; steps are the operations on the
   store, the exclusion file and the enforcement point in the order they were
   made; file is the exclusion file left; env is the enforcement point the
   call met *)
Outcome(result, steps, rule_ids, file, env) ==
    [result |-> result, steps |-> steps, rule_ids |-> rule_ids, file |-> file, env |-> env]

NoEnv == [docker |-> "none", container |-> NoFile, writable |-> FALSE, reload |-> "none"]

NotInvoked == Outcome("not_invoked", <<>>, <<>>, NoFile, NoEnv)

(* a failed read of the container's store taken for a conflict *)
ContainerConflictOrUnread(container, container_rule_ids) ==
    ~container.exists \/ ~check_rule_id_conflicts(container_rule_ids)

(* lines 160-175: the conflict check of the container's store stops the call
   only when the store was read; a failed read raises inside the try block
   and the except clause logs it and lets the call go on *)
ContainerConflict(container, container_rule_ids) ==
    container.exists /\ ~check_rule_id_conflicts(container_rule_ids)

(* rule_ids and container_rule_ids are the lists extract_rule_ids returned *)
update_rules(env, store, exclusions_file, rule_ids, container_rule_ids) ==
    LET running == check_container_running(env.docker)
    IN  IF running # "True"
        THEN Outcome(running, <<"inspect">>, <<>>, exclusions_file, env)
        ELSE IF ~store.exists
        THEN Outcome("False", <<"inspect", "read">>, <<>>, exclusions_file, env)
        ELSE IF ~check_rule_id_conflicts(rule_ids)
        THEN Outcome("False", <<"inspect", "read", "conflict">>, rule_ids, exclusions_file, env)
        ELSE IF ContainerConflict(env.container, container_rule_ids)
        THEN Outcome("False", <<"inspect", "read", "cat", "conflict">>, rule_ids,
                     exclusions_file, env)
        ELSE LET added == add_rule_exclusions(rule_ids, exclusions_file, env.writable)
                 steps == <<"inspect", "read", "cat", "exclusions">>
             IN  IF ~added.ok
                 THEN Outcome("False", steps, rule_ids, added.file, env)
                 ELSE LET success == reload_apache(env.reload)
                      IN  Outcome(IF success = "True" THEN "True" ELSE "False",
                                  Append(steps, "reload"), rule_ids, added.file, env)

(***************************************************************************)
(* The inputs of the model.                                                 *)
(***************************************************************************)
L_A3crit == <<T_SecRule, T_text, T_id(ID_A), T_pl(3), T_sev("CRITICAL"), T_setvar(3, "expr")>>
L_B4warn == <<T_SecRule, T_text, T_id(ID_B), T_pl(4), T_sev("WARNING"), T_setvar(4, "expr")>>
L_C1 == <<T_SecRule, T_text, T_id(ID_C), T_pl(1), T_sev("CRITICAL"), T_setvar(1, "expr")>>
L_act3 == <<T_SecAction, T_id(ID_B), T_pl(3), T_setvar(4, "expr")>>
L_999A == <<T_SecRule, T_text, T_id(ID_999A), T_pl(4), T_sev("ERROR"), T_setvar(4, "expr")>>
L_A4notice == <<T_SecRule, T_text, T_id(ID_A), T_pl(4), T_sev("NOTICE"), T_setvar(4, "expr")>>
L_Bws == <<T_SecRule, T_idws(ID_B), T_pl(3), T_sev("critical"), T_setvar(3, "expr"), T_id(ID_C)>>
L_nosev == <<T_SecRule, T_text, T_id(ID_B), T_pl(3), T_setvar(3, "expr")>>
L_info == <<T_SecRule, T_text, T_id(ID_B), T_pl(3), T_sev("INFO"), T_setvar(3, "expr")>>
L_noinc == <<T_SecRule, T_text, T_id(ID_C), T_pl(4), T_sev("CRITICAL")>>
L_const == <<T_SecRule, T_text, T_id(ID_C), T_pl(3), T_sev("CRITICAL"), T_setvar(3, "1")>>
L_noid == <<T_SecRule, T_text, T_pl(3), T_sev("CRITICAL"), T_setvar(3, "expr")>>
L_head == <<T_SecRule, T_text>>
L_cont == <<T_ws, T_id(ID_A), T_pl(3), T_sev("ERROR"), T_setvar(3, "expr"), T_ws>>
L_comment == <<T_hash, T_text, T_id(ID_B), T_pl(3)>>
L_blank == <<>>
L_space == <<T_ws>>
L_marker == <<T_marker>>

FilterLines ==
    {L_A3crit, L_B4warn, L_C1, L_act3, L_999A, L_A4notice, L_Bws, L_nosev, L_info,
     L_noinc, L_const, L_noid, L_head, L_cont, L_comment, L_blank, L_space, L_marker}

MainLines == {L_A3crit, L_B4warn, L_C1}

SourceFile(lines) == [readable |-> TRUE, lines |-> lines]
Unreadable == [readable |-> FALSE, lines |-> <<>>]

FilterSources == {SourceFile(ls) : ls \in SeqsUpTo(FilterLines, MaxSrcLines)}
MainSources == {SourceFile(ls) : ls \in SeqsUpTo(MainLines, MaxSrcLines)} \cup {Unreadable}

Hit(target, rules) == [target |-> target, rules |-> rules]
Response(hits) == [ok |-> TRUE, hits |-> hits]
NoResponse == [ok |-> FALSE, hits |-> <<>>]

Tele_A == Response(<<Hit(1, <<RuleData(ID_A, 3, "critical")>>)>>)
Tele_half == Response(<<Hit(1, <<RuleData(ID_A, 3, "critical")>>), Hit(0, <<>>)>>)
Tele_AB ==
    Response(<<Hit(1, <<RuleData(ID_A, 3, "critical"), RuleData(ID_B, 4, "warning")>>),
               Hit(1, <<RuleData(ID_B, 4, "warning")>>)>>)
Tele_A999 == Response(<<Hit(1, <<RuleData(ID_A, 3, "critical"), RuleData(ID_999A, 3, "critical")>>)>>)
Tele_C == Response(<<Hit(1, <<RuleData(ID_C, 3, "critical")>>)>>)
Tele_A1 == Response(<<Hit(1, <<RuleData(ID_A, 1, "critical")>>)>>)

Telemetry == {NoResponse, Tele_A, Tele_half, Tele_AB, Tele_A999, Tele_C, Tele_A1}

(* the body a pass is to write for rule A of the source *)
Body_999A == << <<T_SecRule, T_text, T_id(ID_999A), T_pl(3), T_sev("CRITICAL"), T_setvar(3, "2")>> >>

Store_provA == FileOf(ProvenanceLines(ID_999A, ID_A))
Store_bodyA == FileOf(<<L_A3crit>>)
Store_synced == FileOf(ProvenanceLines(ID_999A, ID_A) \o Body_999A \o TerminatorLines)

StoreInits == {NoFile, FileOf(<<>>), Store_provA, Store_bodyA, Store_synced}

(* stores for the updater: with the original and the custom id of rule A,
   and with the custom ids of two rules *)
Body_999B == << <<T_SecRule, T_text, T_id(Prefix999 \o ID_B), T_pl(4), T_sev("WARNING"), T_setvar(4, "1")>> >>
Store_both == FileOf(<<L_A3crit>> \o ProvenanceLines(ID_999A, ID_A) \o Body_999A)
Store_two == FileOf(Body_999A \o Body_999B \o TerminatorLines)

UpdaterStores ==
    {NoFile, FileOf(<<>>), Store_provA, Store_bodyA, Store_synced, Store_both, Store_two}

(* exclusion lists: with the directive of rule A, with the directive of the
   longer identifier 9421001, with a comment *)
Excl_A == FileOf(<< <<T_excl(ID_A)>> >>)
Excl_Along == FileOf(<< <<T_excl(ID_A \o <<1>>)>> >>)
Excl_text == FileOf(<< <<T_hash, T_text>> >>)

ExclInits == {NoFile, FileOf(<<>>), Excl_A, Excl_Along, Excl_text}

Envs ==
    [docker : {"running", "stopped", "missing", "no_docker"},
     container : {NoFile, Store_synced, Store_bodyA},
     writable : BOOLEAN,
     reload : {"ok", "fail", "no_docker"}]

(***************************************************************************)
(* State.                                                                   *)
(***************************************************************************)
VARIABLES
    rulesFile,        \* the rule source file (config.security_rules_file)
    cwd,              \* the working directory of the runs
    files,            \* custom_rules.conf of each directory
    rulesConf,        \* rules.conf of the working directory
    pc,               \* position of the run
    passNo,           \* passes finished
    es_response,      \* main's locals, kept after the pass for its report
    extracted_rules,
    emitted,          \* the records of extract_paranoia_rules' loop
    existing_rules,
    sorted_rules,
    idx,              \* position of the for loop in sorted_rules
    added_rules_info,
    new_rule_added,
    trigger,          \* "not_invoked", "ok", "failed" or "raised": update_rules in this pass
    exclusions,       \* rule-exclusions.conf next to the store of each directory
    upd,              \* what the last call of update_rules did
    fault,            \* "none", or what raised the exception that ended the run
    storeAtStart,     \* history: the store file when the pass started
    sameInputs,       \* history: every pass so far had the telemetry of the first
    nsArg,            \* argument and results of generate_custom_rule_id
    nsRes

vars ==
    <<rulesFile, cwd, files, rulesConf, pc, passNo, es_response, extracted_rules,
      emitted, existing_rules, sorted_rules, idx, added_rules_info, new_rule_added,
      trigger, exclusions, upd, fault, storeAtStart, sameInputs, nsArg, nsRes>>

StoreFile == files[cwd]
IndexFile == files[IndexDir]

InitLocals ==
    /\ rulesConf = NoFile
    /\ passNo = 0
    /\ es_response = NoResponse
    /\ extracted_rules = EmptyDict
    /\ emitted = <<>>
    /\ existing_rules = {}
    /\ sorted_rules = <<>>
    /\ idx = 1
    /\ added_rules_info = <<>>
    /\ new_rule_added = FALSE
    /\ trigger = "not_invoked"
    /\ upd = NotInvoked
    /\ fault = "none"
    /\ storeAtStart = NoFile
    /\ sameInputs = TRUE

Init ==
    /\ rulesFile \in MainSources
    /\ cwd \in Dirs
    /\ \E store \in StoreInits, index \in {NoFile, Store_provA} :
          files = IF cwd = IndexDir
                  THEN [d \in Dirs |-> IF d = cwd THEN store ELSE NoFile]
                  ELSE [d \in Dirs |-> IF d = cwd THEN store ELSE index]
    /\ exclusions = [d \in Dirs |-> FileOf(<<>>)]
    /\ pc = "Idle"
    /\ InitLocals
    /\ nsArg = <<>>
    /\ nsRes = <<>>

(***************************************************************************)
(* main(), lines 30-94: the run up to the loop over the candidates.         *)
(***************************************************************************)
StartPass(response) ==
    LET extracted == extract_paranoia_rules(rulesFile)
        target_results == target_metadata(response)
        runs == /\ response.ok
                /\ target_results.attack_percentage > attack_threshold * 100
    IN  /\ pc = "Idle"
        /\ passNo < MaxPasses
        /\ es_response' = response
        /\ extracted_rules' = extracted
        /\ emitted' = extract_trace(rulesFile)
        /\ rulesConf' = IF rulesConf.exists THEN rulesConf ELSE save_rules_to_file(extracted)
        /\ storeAtStart' = StoreFile
        /\ sameInputs' = (passNo = 0 \/ (sameInputs /\ response = es_response))
        /\ added_rules_info' = <<>>
        /\ new_rule_added' = FALSE
        /\ trigger' = "not_invoked"
        /\ idx' = 1
        /\ upd' = NotInvoked
        /\ IF runs
           THEN /\ existing_rules' = get_existing_rules(IndexFile)
                /\ sorted_rules' = rules_metadata(response)
                /\ \E created \in BOOLEAN :
                      IF StoreFile.exists \/ created
                      THEN /\ files' = [files EXCEPT ![cwd] = EnsureStoreFile(@)]
                           /\ pc' = "Diffing"
                           /\ passNo' = passNo
                           /\ fault' = "none"
                      ELSE \* open(config.custom_rules_file, "w") raises
                           /\ files' = files
                           /\ pc' = UncaughtInMain("Idle")
                           /\ passNo' = passNo + 1
                           /\ fault' = "store"
           ELSE /\ existing_rules' = {}
                /\ sorted_rules' = <<>>
                /\ files' = files
                /\ pc' = "Idle"
                /\ passNo' = passNo + 1
                /\ fault' = "none"
        /\ UNCHANGED <<rulesFile, cwd, exclusions, nsArg, nsRes>>

(***************************************************************************)
(* main(), lines 96-126: one iteration of the loop.                         *)
(***************************************************************************)
ProcessCandidate ==
    /\ pc = "Diffing"
    /\ idx <= Len(sorted_rules)
    /\ LET rule_info == sorted_rules[idx]
           original_id == rule_info.rule_id
           custom_id == rule_info.custom_id
           key == LookupKey(original_id, custom_id)
       IN  IF InDict(key, extracted_rules) /\ custom_id \notin existing_rules
           THEN \E written \in {"all", "comment", "nothing"} :
                   IF written = "all"
                   THEN /\ files' = [files EXCEPT ![cwd] =
                                        AppendLines(@, ProvenanceLines(custom_id, original_id)
                                                       \o DictGet(extracted_rules, key))]
                        /\ new_rule_added' = TRUE
                        /\ added_rules_info' = Append(added_rules_info, rule_info)
                        /\ idx' = idx + 1
                        /\ UNCHANGED <<pc, passNo, fault>>
                   ELSE \* the open or a write raises: the run ends there
                        /\ files' = IF written = "comment"
                                    THEN [files EXCEPT ![cwd] =
                                            AppendLines(@, ProvenanceLines(custom_id, original_id))]
                                    ELSE files
                        /\ pc' = UncaughtInMain("Diffing")
                        /\ passNo' = passNo + 1
                        /\ fault' = "store"
                        /\ UNCHANGED <<new_rule_added, added_rules_info, idx>>
           ELSE /\ idx' = idx + 1
                /\ UNCHANGED <<files, new_rule_added, added_rules_info, pc, passNo, fault>>
    /\ UNCHANGED <<rulesFile, cwd, rulesConf, es_response, extracted_rules,
                   emitted, existing_rules, sorted_rules, trigger, exclusions, upd,
                   storeAtStart, sameInputs, nsArg, nsRes>>

(***************************************************************************)
(* main(), lines 128-159: terminator, deployment trigger, notification.     *)
(* An exception that leaves update_rules leaves main: nothing catches it.    *)
(***************************************************************************)
FinishPass ==
    /\ pc = "Diffing"
    /\ idx > Len(sorted_rules)
    /\ pc' = "Idle"
    /\ passNo' = passNo + 1
    /\ \E marked \in BOOLEAN :
          IF WritesTerminator(new_rule_added) /\ ~marked
          THEN \* the write of the terminator raises: the run ends there
               /\ fault' = "store"
               /\ UNCHANGED <<files, trigger, exclusions, upd>>
          ELSE /\ files' = IF WritesTerminator(new_rule_added)
                           THEN [files EXCEPT ![cwd] = AppendLines(@, TerminatorLines)]
                           ELSE files
               /\ IF CallsUpdateRules(new_rule_added)
                  THEN \E env \in Envs :
                       \E rule_ids \in Orders(extract_rule_ids(files'[cwd].lines)) :
                       \E container_rule_ids \in Orders(extract_rule_ids(env.container.lines)) :
                          LET done == update_rules(env, files'[cwd], exclusions[cwd],
                                                   rule_ids, container_rule_ids)
                          IN  /\ upd' = done
                              /\ exclusions' = [exclusions EXCEPT ![cwd] = done.file]
                              /\ trigger' = IF done.result = "True" THEN "ok"
                                            ELSE IF done.result = "False" THEN "failed"
                                            ELSE "raised"
                              /\ fault' = IF done.result = "raised" THEN "trigger" ELSE "none"
                  ELSE /\ trigger' = "not_invoked"
                       /\ fault' = "none"
                       /\ UNCHANGED <<exclusions, upd>>
    /\ UNCHANGED <<rulesFile, cwd, rulesConf, es_response, extracted_rules, emitted,
                   existing_rules, sorted_rules, idx, added_rules_info, new_rule_added,
                   storeAtStart, sameInputs, nsArg, nsRes>>

Next ==
    \/ \E response \in Telemetry : StartPass(response)
    \/ ProcessCandidate
    \/ FinishPass

Spec == Init /\ [][Next]_vars

(***************************************************************************)
(* extract_paranoia_rules applied to every rule source of the bound.        *)
(***************************************************************************)
InitFilter ==
    /\ rulesFile \in FilterSources
    /\ cwd = "base"
    /\ files = [d \in Dirs |-> NoFile]
    /\ exclusions = [d \in Dirs |-> NoFile]
    /\ pc = "Filter"
    /\ InitLocals
    /\ nsArg = <<>>
    /\ nsRes = <<>>

RunExtract ==
    /\ pc = "Filter"
    /\ extracted_rules' = extract_paranoia_rules(rulesFile)
    /\ emitted' = extract_trace(rulesFile)
    /\ pc' = "Filtered"
    /\ UNCHANGED <<rulesFile, cwd, files, rulesConf, passNo, es_response, existing_rules,
                   sorted_rules, idx, added_rules_info, new_rule_added, trigger,
                   exclusions, upd, fault, storeAtStart, sameInputs, nsArg, nsRes>>

NextFilter == RunExtract

SpecFilter == InitFilter /\ [][NextFilter]_vars

(***************************************************************************)
(* generate_custom_rule_id applied, and applied again to its result.        *)
(***************************************************************************)
NsDigits == {4, 9}
NsIds == SeqsUpTo(NsDigits, MaxIdLen)

InitNamespacer ==
    /\ rulesFile = Unreadable
    /\ cwd = "base"
    /\ files = [d \in Dirs |-> NoFile]
    /\ exclusions = [d \in Dirs |-> NoFile]
    /\ pc = "Namespacer"
    /\ InitLocals
    /\ nsArg \in NsIds
    /\ nsRes = <<>>

ApplyNamespacer ==
    /\ pc = "Namespacer"
    /\ Len(nsRes) < 2
    /\ nsRes' = Append(nsRes, generate_custom_rule_id(
                                 IF nsRes = <<>> THEN nsArg ELSE nsRes[Len(nsRes)]))
    /\ UNCHANGED <<rulesFile, cwd, files, rulesConf, pc, passNo, es_response,
                   extracted_rules, emitted, existing_rules, sorted_rules, idx,
                   added_rules_info, new_rule_added, trigger, exclusions, upd, fault,
                   storeAtStart, sameInputs, nsArg>>

NextNamespacer == ApplyNamespacer

SpecNamespacer == InitNamespacer /\ [][NextNamespacer]_vars

(***************************************************************************)
(* modsec_rule_updater.py run as a program (lines 195-197):                 *)
(* ModSecRuleUpdater().update_rules() on custom_rules.conf of the           *)
(* python_script directory, run after run.                                  *)
(***************************************************************************)
InitUpdater ==
    /\ rulesFile = Unreadable
    /\ cwd = "base"
    /\ \E store \in UpdaterStores :
          files = [d \in Dirs |-> IF d = IndexDir THEN store ELSE NoFile]
    /\ \E list \in ExclInits :
          exclusions = [d \in Dirs |-> IF d = IndexDir THEN list ELSE NoFile]
    /\ pc = "Updater"
    /\ InitLocals
    /\ nsArg = <<>>
    /\ nsRes = <<>>

UpdaterMain(env) ==
    /\ pc = "Updater"
    /\ passNo < MaxPasses
    /\ \E rule_ids \in Orders(extract_rule_ids(IndexFile.lines)) :
       \E container_rule_ids \in Orders(extract_rule_ids(env.container.lines)) :
          LET done == update_rules(env, IndexFile, exclusions[IndexDir],
                                   rule_ids, container_rule_ids)
          IN  /\ upd' = done
              /\ exclusions' = [exclusions EXCEPT ![IndexDir] = done.file]
              /\ fault' = IF done.result = "raised" THEN "trigger" ELSE "none"
    /\ passNo' = passNo + 1
    /\ UNCHANGED <<rulesFile, cwd, files, rulesConf, pc, es_response, extracted_rules,
                   emitted, existing_rules, sorted_rules, idx, added_rules_info,
                   new_rule_added, trigger, storeAtStart, sameInputs, nsArg, nsRes>>

NextUpdater == \E env \in Envs : UpdaterMain(env)

SpecUpdater == InitUpdater /\ [][NextUpdater]_vars

(***************************************************************************)
(* add_rule_exclusions applied to every list of identifiers of the bound,   *)
(* call after call on the same exclusion file.                              *)
(***************************************************************************)
MaxRuleIds == 2
ExclArgIds == {ID_A, ID_999A, ID_B}
ExclArgs ==
    {s \in SeqsUpTo(ExclArgIds, MaxRuleIds) : \A i, j \in 1..Len(s) : i # j => s[i] # s[j]}

InitExclusions ==
    /\ rulesFile = Unreadable
    /\ cwd = "base"
    /\ files = [d \in Dirs |-> NoFile]
    /\ \E list \in ExclInits :
          exclusions = [d \in Dirs |-> IF d = IndexDir THEN list ELSE NoFile]
    /\ pc = "Exclusions"
    /\ InitLocals
    /\ nsArg = <<>>
    /\ nsRes = <<>>

CallAddExclusions(rule_ids, writable) ==
    /\ pc = "Exclusions"
    /\ passNo < MaxPasses
    /\ LET added == add_rule_exclusions(rule_ids, exclusions[IndexDir], writable)
       IN  /\ upd' = Outcome(IF added.ok THEN "True" ELSE "False", <<"exclusions">>,
                             rule_ids, added.file,
                             [NoEnv EXCEPT !.writable = writable])
           /\ exclusions' = [exclusions EXCEPT ![IndexDir] = added.file]
    /\ passNo' = passNo + 1
    /\ UNCHANGED <<rulesFile, cwd, files, rulesConf, pc, es_response, extracted_rules,
                   emitted, existing_rules, sorted_rules, idx, added_rules_info,
                   new_rule_added, trigger, fault, storeAtStart, sameInputs, nsArg, nsRes>>

NextExclusions == \E rule_ids \in ExclArgs, writable \in BOOLEAN : CallAddExclusions(rule_ids, writable)

SpecExclusions == InitExclusions /\ [][NextExclusions]_vars

(***************************************************************************)
(* The write of a record (main.py lines 116-120) followed by a load of the  *)
(* index from the file written, for every record the filter emits from the  *)
(* sources of the bound.                                                    *)
(***************************************************************************)
L_wsonly == <<T_SecRule, T_text, T_idws(ID_B), T_pl(3), T_sev("ERROR"), T_setvar(3, "expr")>>

RoundTripLines == {L_A3crit, L_B4warn, L_wsonly, L_cont, L_comment}
RoundTripSources == {SourceFile(ls) : ls \in SeqsUpTo(RoundTripLines, MaxSrcLines)}

InitRoundTrip ==
    /\ rulesFile \in RoundTripSources
    /\ cwd = "base"
    /\ \E store \in {FileOf(<<>>), Store_provA, Store_synced} :
          files = [d \in Dirs |-> IF d = cwd THEN store ELSE NoFile]
    /\ exclusions = [d \in Dirs |-> NoFile]
    /\ pc = "Append"
    /\ InitLocals
    /\ nsArg = <<>>
    /\ nsRes = <<>>

(* the with block of lines 116-120 for the i-th record of the filter *)
AppendRecord(i) ==
    /\ pc = "Append"
    /\ i \in 1..Len(extract_trace(rulesFile))
    /\ LET rec == extract_trace(rulesFile)[i]
           rule_content == DictGet(extract_paranoia_rules(rulesFile), rec.custom_id)
       IN  /\ files' = [files EXCEPT ![cwd] =
                           AppendLines(@, ProvenanceLines(rec.custom_id, rec.original_id)
                                          \o rule_content)]
           /\ added_rules_info' = <<[rule_id |-> rec.original_id, custom_id |-> rec.custom_id]>>
    /\ emitted' = extract_trace(rulesFile)
    /\ extracted_rules' = extract_paranoia_rules(rulesFile)
    /\ storeAtStart' = StoreFile
    /\ new_rule_added' = TRUE
    /\ pc' = "Load"
    /\ UNCHANGED <<rulesFile, cwd, rulesConf, passNo, es_response, existing_rules,
                   sorted_rules, idx, trigger, exclusions, upd, fault, sameInputs,
                   nsArg, nsRes>>

(* get_existing_rules on the file written *)
LoadIndex ==
    /\ pc = "Load"
    /\ existing_rules' = get_existing_rules(StoreFile)
    /\ pc' = "Loaded"
    /\ UNCHANGED <<rulesFile, cwd, files, rulesConf, passNo, es_response, extracted_rules,
                   emitted, sorted_rules, idx, added_rules_info, new_rule_added, trigger,
                   exclusions, upd, fault, storeAtStart, sameInputs, nsArg, nsRes>>

NextRoundTrip ==
    \/ \E i \in 1..MaxSrcLines : AppendRecord(i)
    \/ LoadIndex

SpecRoundTrip == InitRoundTrip /\ [][NextRoundTrip]_vars

(***************************************************************************)
(* Properties.                                                              *)
(***************************************************************************)
Added == {added_rules_info[i] : i \in 1..Len(added_rules_info)}

Candidates == {sorted_rules[i] : i \in 1..Len(sorted_rules)}

(* the identifiers a store file holds, as an identifier declaration of a
   body or in a provenance comment *)
StoreIds(file) ==
    LET toks == Flatten(file.lines)
    IN  {toks[i].num : i \in Positions(toks, IsIdNoWs)}
        \cup {toks[i].num : i \in Positions(toks, IsProv)}
        \cup {toks[i].num2 : i \in Positions(toks, IsProv)}

(* the pass whose locals the state holds went through the loop to its end *)
PassDone == pc = "Idle" /\ passNo >= 1 /\ fault = "none"

(* that pass is the second pass or a later one *)
LaterPass == (pc = "Diffing" /\ passNo >= 1) \/ (pc = "Idle" /\ passNo >= 2)

ScenarioSource == SourceFile(<<L_A3crit>>)

C1_Scenario ==
    /\ PassDone
    /\ passNo = 1
    /\ rulesFile = ScenarioSource
    /\ es_response = Tele_A
    /\ storeAtStart.lines = <<>>

(* C1: from an empty store, with a source holding the one eligible tier-3
   rule 942100 (severity critical) and telemetry reporting it at tier 3, one
   pass appends exactly one record under custom id 999942100 with the
   increment rewritten to 2, then one terminator line, and reports one
   appended record. *)
C1_OnePassAppendsOne ==
    C1_Scenario =>
        /\ StoreFile.lines = ProvenanceLines(ID_999A, ID_A) \o Body_999A \o TerminatorLines
        /\ Len(added_rules_info) = 1
        /\ added_rules_info[1].custom_id = ID_999A

(* C2: a rule whose original or custom id is in the store when a pass starts
   is not appended by that pass, and the second and every later pass over
   the same source and telemetry appends nothing and leaves the store as it
   was. *)
C2_NoReappend ==
    /\ \A r \in Added :
          r.rule_id \notin StoreIds(storeAtStart) /\ r.custom_id \notin StoreIds(storeAtStart)
    /\ (LaterPass /\ sameInputs) =>
          (added_rules_info = <<>> /\ StoreFile.lines = storeAtStart.lines)

C2_Witness ==
    /\ pc = "Idle"
    /\ passNo >= 2
    /\ sameInputs
    /\ added_rules_info = <<>>
    /\ \E r \in Candidates :
          /\ r.custom_id \in StoreIds(storeAtStart)
          /\ InDict(r.custom_id, extracted_rules)

(* C3: a candidate is appended only if neither its original id nor its
   custom id is in the index loaded at the start of the pass; with the
   original id declared in the store the candidate is skipped. *)
C3_AppendOnlyIfAbsent ==
    \A r \in Added : r.rule_id \notin existing_rules /\ r.custom_id \notin existing_rules

C3_Witness ==
    /\ pc = "Diffing"
    /\ idx > 1
    /\ sorted_rules[idx - 1].rule_id \in existing_rules
    /\ sorted_rules[idx - 1].custom_id \notin existing_rules
    /\ InDict(sorted_rules[idx - 1].custom_id, extracted_rules)
    /\ added_rules_info = <<>>
    /\ StoreFile = storeAtStart

(* C4: no custom id is appended more than once in one pass, whatever the
   candidate list. *)
C4_NoDoubleAppend ==
    \A i, j \in 1..Len(added_rules_info) :
        i # j => added_rules_info[i].custom_id # added_rules_info[j].custom_id

C4_Witness ==
    /\ PassDone
    /\ \E i, j \in 1..Len(sorted_rules) :
          /\ i # j
          /\ sorted_rules[i].custom_id = sorted_rules[j].custom_id
          /\ InDict(sorted_rules[i].custom_id, extracted_rules)
          /\ sorted_rules[i].custom_id \notin existing_rules
    /\ Len(added_rules_info) <= 1

(* a block split into its directives: a new directive starts at every line
   that starts with the head of a directive *)
RECURSIVE Directives(_, _)
Directives(groups, lines) ==
    IF lines = <<>> THEN groups
    ELSE IF groups = <<>> \/ Head(lines)[1].k \in {"SecRule", "SecAction", "marker"}
         THEN Directives(Append(groups, <<Head(lines)>>), Tail(lines))
         ELSE Directives([groups EXCEPT ![Len(groups)] = Append(@, Head(lines))],
                         Tail(lines))

(* the directive of the block that declares the identifier of the record:
   the rule the record belongs to *)
OwnRule(rule) ==
    LET ds == Directives(<<>>, rule)
        with == {g \in 1..Len(ds) : \E p \in 1..Len(Flatten(ds[g])) : Flatten(ds[g])[p].k = "id"}
    IN  ds[Min(with)]

OwnTiers(rule) ==
    LET toks == Flatten(OwnRule(rule))
    IN  {toks[i].lvl : i \in {p \in 1..Len(toks) : toks[p].k = "pl"}}

(* the rule itself declares tier 3 or 4 *)
OwnTier34(rule) == OwnTiers(rule) \cap {3, 4} # {}

(* C5: every record the filter emits, and every record appended, belongs to
   a rule whose own risk tier is 3 or 4. *)
C5_OnlyTier34 ==
    /\ \A i \in 1..Len(emitted) : OwnTier34(emitted[i].rule)
    /\ \A r \in Added : \A i \in 1..Len(emitted) :
          emitted[i].custom_id = r.custom_id => OwnTier34(emitted[i].rule)

(* C6: generate_custom_rule_id is idempotent; an id without the prefix gets
   exactly "999" put in front, an id with the prefix is returned unchanged. *)
C6_NamespacerIdempotent ==
    /\ Len(nsRes) >= 1 =>
          nsRes[1] = IF StartsWith999(nsArg) THEN nsArg ELSE <<9, 9, 9>> \o nsArg
    /\ Len(nsRes) = 2 => nsRes[2] = nsRes[1]

C6_Witness ==
    /\ Len(nsRes) = 2
    /\ Len(nsArg) >= 2
    /\ ~StartsWith999(nsArg)
    /\ nsArg[1] = 9

(* C7: emitted records with distinct original ids have distinct custom ids,
   so none overwrites another in the filtered set. *)
C7_CustomIdsUnique ==
    /\ \A i, j \in 1..Len(emitted) :
          emitted[i].original_id # emitted[j].original_id
              => emitted[i].custom_id # emitted[j].custom_id
    /\ Len(extracted_rules.keys) = Cardinality({emitted[i].original_id : i \in 1..Len(emitted)})

C7_Witness ==
    /\ pc = "Filtered"
    /\ \E i, j \in 1..Len(emitted) : emitted[i].original_id # emitted[j].original_id
    /\ Len(extracted_rules.keys) = 2

(* the constant the claim gives for a severity, "none" for any other *)
C8_Weight(severity) ==
    IF severity = "critical" THEN "2"
    ELSE IF severity = "warning" \/ severity = "error" THEN "1"
    ELSE IF severity = "notice" THEN "0"
    ELSE "none"

C8_Severity(rule) ==
    LET toks == Flatten(rule)
        at == {p \in 1..Len(toks) : toks[p].k = "sev"}
    IN  IF at = {} THEN "absent" ELSE Lower(toks[Min(at)].val)

C8_Rewritten(before, after) ==
    LET w == C8_Weight(C8_Severity(before))
    IN  IF w = "none"
        THEN after = before
        ELSE /\ Len(after) = Len(before)
             /\ \A i \in 1..Len(before) :
                   /\ Len(after[i]) = Len(before[i])
                   /\ \A j \in 1..Len(before[i]) :
                         LET t == before[i][j]
                         IN  IF t.k = "setvar" /\ t.val = "expr" /\ t.lvl \in {3, 4}
                             THEN /\ after[i][j].k = "setvar"
                                  /\ after[i][j].val = w
                             ELSE after[i][j] = t

(* C8: in a block tagged tier 3 or 4 the increment expression is rewritten
   to 2 for critical, 1 for warning or error, 0 for notice; the body is left
   as it is when the severity is absent or unknown or when there is no
   increment expression. *)
C8_WeightSubstitution ==
    \A i \in 1..Len(emitted) : C8_Rewritten(emitted[i].namespaced, emitted[i].adjusted_rule)

C8_Witness ==
    /\ pc = "Filtered"
    /\ \E i \in 1..Len(emitted) :
          /\ C8_Severity(emitted[i].namespaced) = "notice"
          /\ emitted[i].adjusted_rule # emitted[i].namespaced

(* the file get_existing_rules read at the start of the pass *)
IndexAtLoad == IF cwd = IndexDir THEN storeAtStart ELSE IndexFile

IsProvLine(line) == Len(line) = 1 /\ line[1].k = "prov"

(* C9: with a provenance comment naming original id X (no prefix) in the
   store, the loaded index holds X and 999X, and the pass appends neither. *)
C9_ProvenanceCounts ==
    pc = "Diffing" =>
        \A i \in 1..Len(IndexAtLoad.lines) :
            LET line == IndexAtLoad.lines[i]
            IN  (IsProvLine(line) /\ ~StartsWith999(line[1].num2)) =>
                    /\ line[1].num2 \in existing_rules
                    /\ (<<9, 9, 9>> \o line[1].num2) \in existing_rules
                    /\ \A r \in Added :
                          /\ r.rule_id # line[1].num2
                          /\ r.custom_id # <<9, 9, 9>> \o line[1].num2

C9_Witness ==
    /\ pc = "Diffing"
    /\ idx > Len(sorted_rules)
    /\ IndexAtLoad = Store_provA
    /\ StoreFile = Store_provA
    /\ \E r \in Candidates : r.rule_id = ID_A /\ InDict(r.custom_id, extracted_rules)
    /\ added_rules_info = <<>>

(* C10: the store is append-only: every step leaves the content a store
   file had as a prefix of its content after the step. *)
C10_AppendOnly ==
    [][\A d \in Dirs :
          /\ files[d].exists => files'[d].exists
          /\ IsPrefix(files[d].lines, files'[d].lines)]_vars

C10_Witness ==
    /\ PassDone
    /\ sorted_rules # <<>>
    /\ storeAtStart.lines # <<>>
    /\ StoreFile = storeAtStart

(* the number of terminator lines of a file *)
Markers(file) == Cardinality({i \in 1..Len(file.lines) : file.lines[i] = <<T_marker>>})

(* C11: a pass that appended at least one rule ends by writing exactly one
   terminator line, a pass that appended none writes none; the terminators of
   earlier passes stay in the store. *)
C11_TerminatorPerPass ==
    PassDone =>
        /\ IsPrefix(storeAtStart.lines, StoreFile.lines)
        /\ IF added_rules_info # <<>>
           THEN /\ Markers(StoreFile) = Markers(storeAtStart) + 1
                /\ StoreFile.lines[Len(StoreFile.lines)] = <<T_marker>>
           ELSE Markers(StoreFile) = Markers(storeAtStart)

C11_Witness ==
    /\ PassDone
    /\ sorted_rules # <<>>
    /\ added_rules_info = <<>>
    /\ Markers(storeAtStart) = 1
    /\ Markers(StoreFile) = 1

(* C12: update_rules is invoked at the end of a pass if and only if the pass
   appended at least one record; a pass with no append makes no enforcement
   check, writes no exclusion and issues no reload. *)
C12_TriggerIffAppended ==
    [][(pc = "Diffing" /\ pc' = "Idle" /\ fault' # "store") =>
          /\ (trigger' # "not_invoked") <=> (added_rules_info # <<>>)
          /\ added_rules_info = <<>> => (upd' = NotInvoked /\ exclusions' = exclusions)]_vars

C12_Witness ==
    /\ PassDone
    /\ sorted_rules # <<>>
    /\ added_rules_info = <<>>
    /\ trigger = "not_invoked"
    /\ upd = NotInvoked

(* the operations a call of update_rules made *)
StepsOf(u) == {u.steps[i] : i \in 1..Len(u.steps)}

(* C13: when the running check reports not-running, update_rules returns
   failure, writes no exclusion and issues no reload, and the store with the
   records and the terminator written before the call stays as it was. *)
C13_NotRunningAborts ==
    [][upd'.env.docker \in {"stopped", "missing"} =>
          /\ upd'.result = "False"
          /\ upd'.steps = <<"inspect">>
          /\ exclusions' = exclusions
          /\ files' = files]_vars

C13_Witness ==
    /\ upd.env.docker = "stopped"
    /\ upd.result = "False"
    /\ IndexFile = Store_synced
    /\ exclusions[IndexDir] = FileOf(<<>>)

(* the place of an operation in the sequence of update_rules *)
StepRank(step) ==
    CASE step = "inspect" -> 1
      [] step = "read" -> 2
      [] step = "cat" -> 3
      [] step = "conflict" -> 4
      [] step = "exclusions" -> 5
      [] step = "reload" -> 6

(* C14: the steps of update_rules run in the order running check, exclusion
   registration, reload; the reload is issued only after the running check
   and the exclusion registration succeeded, a failed step is the last one,
   and update_rules returns success only if the reload succeeded. *)
C14_StepsInOrder ==
    [][LET u == upd'
       IN  /\ \A i, j \in 1..Len(u.steps) : i < j => StepRank(u.steps[i]) < StepRank(u.steps[j])
           /\ "exclusions" \in StepsOf(u) => u.env.docker = "running"
           /\ "reload" \in StepsOf(u) =>
                 /\ u.env.docker = "running"
                 /\ "exclusions" \in StepsOf(u)
                 /\ exclusions[IndexDir].exists
                 /\ u.env.writable \/ exclusions' = exclusions
           /\ u.result = "True" => ("reload" \in StepsOf(u) /\ u.env.reload = "ok")]_vars

C14_Witness ==
    /\ upd.result = "True"
    /\ upd.steps = <<"inspect", "read", "cat", "exclusions", "reload">>
    /\ Len(upd.rule_ids) = 2
    /\ exclusions[IndexDir].lines # <<>>

(* the vendor identifiers that have a directive of their own in a file *)
Registered(file) ==
    {file.lines[i][1].num : i \in {p \in 1..Len(file.lines) :
                                      Len(file.lines[p]) = 1 /\ file.lines[p][1].k = "excl"}}

(* C15: after add_rule_exclusions succeeded for a list of identifiers, the
   vendor form of every one of them has an exclusion directive of its own,
   also when the list already held a directive for a longer identifier that
   starts with the same digits. *)
C15_EveryIdRegistered ==
    "reload" \in StepsOf(upd) =>
        \A i \in 1..Len(upd.rule_ids) :
            VendorForm(upd.rule_ids[i]) \in Registered(exclusions[IndexDir])

(* the directives a step appended to the exclusion list *)
AppendedDirectives(before, after) ==
    LET new == SubSeq(after.lines, Len(before.lines) + 1, Len(after.lines))
    IN  {i \in 1..Len(new) : Len(new[i]) = 1 /\ new[i][1].k = "excl"}

(* C16: the exclusion list is append-only and free of duplicates: a call of
   add_rule_exclusions leaves the lines it found as they were, and appends no
   directive for a vendor identifier that has one, neither one of an earlier
   call nor one of the same call. *)
C16_AppendOnlyNoDuplicates ==
    [][LET before == exclusions[IndexDir]
           after == exclusions'[IndexDir]
           new == SubSeq(after.lines, Len(before.lines) + 1, Len(after.lines))
       IN  /\ before.exists => after.exists
           /\ IsPrefix(before.lines, after.lines)
           /\ \A i \in AppendedDirectives(before, after) :
                 /\ new[i][1].num \notin Registered(before)
                 /\ \A j \in AppendedDirectives(before, after) :
                       i # j => new[i][1].num # new[j][1].num]_vars

(* the identifiers a store declares with id:<digits> *)
Declared(file) ==
    LET toks == Flatten(file.lines)
    IN  {toks[i].num : i \in Positions(toks, IsIdNoWs)}

BothForms(file) == \E x \in Declared(file) : ~StartsWith999(x) /\ (<<9, 9, 9>> \o x) \in Declared(file)

(* C17: with an original id X and its namespaced form 999X both declared in
   the store, update_rules fails before an exclusion is written and before a
   reload is issued, and when it gets to the store it stops at the conflict. *)
C17_ConflictDetected ==
    [][BothForms(IndexFile) =>
          /\ upd'.result # "True"
          /\ exclusions' = exclusions
          /\ StepsOf(upd') \cap {"exclusions", "reload"} = {}
          /\ upd'.env.docker = "running" => upd'.steps = <<"inspect", "read", "conflict">>]_vars

C17_Witness ==
    /\ IndexFile = Store_both
    /\ upd.env.docker = "running"
    /\ upd.env.reload = "ok"
    /\ upd.steps = <<"inspect", "read", "conflict">>
    /\ upd.result = "False"

(* C18: with a rule source that cannot be read the pass ends in Loading: it
   creates and changes no file, appends nothing, does not get to the loop
   and does not invoke the trigger. *)
C18_UnreadableSourceAborts ==
    [][(~rulesFile.readable /\ pc = "Idle") =>
          /\ pc' = "Idle"
          /\ rulesConf' = rulesConf
          /\ files' = files
          /\ added_rules_info' = <<>>
          /\ trigger' = "not_invoked"]_vars

(* C19: a call of update_rules returns a boolean whatever fails: False for
   every failure of the running check, of the exclusion file and of the
   reload; no exception leaves update_rules. *)
C19_FailureIsFalse ==
    upd.result # "not_invoked" =>
        /\ upd.result \in {"True", "False"}
        /\ (upd.env.docker # "running" \/ upd.env.reload # "ok") => upd.result = "False"

(* the provenance comments the pass has written to the store *)
Written ==
    LET new == SubSeq(StoreFile.lines, Len(storeAtStart.lines) + 1, Len(StoreFile.lines))
    IN  {i \in 1..Len(new) : IsProvLine(new[i])}

(* C20: when a write to the store raises after k records were appended, the
   pass ends there: the store keeps what it held and the k records, nothing
   more is appended, and update_rules is not invoked. *)
C20_StoreFaultEndsPass ==
    fault = "store" =>
        /\ pc = "Idle"
        /\ IsPrefix(storeAtStart.lines, StoreFile.lines)
        /\ Cardinality(Written) \in {Len(added_rules_info), Len(added_rules_info) + 1}
        /\ Markers(StoreFile) = Markers(storeAtStart)
        /\ trigger = "not_invoked"
        /\ upd = NotInvoked

C20_Witness ==
    /\ fault = "store"
    /\ pc = "Idle"
    /\ sorted_rules # <<>>
    /\ InDict(sorted_rules[1].custom_id, extracted_rules)
    /\ added_rules_info = <<>>
    /\ ~StoreFile.exists

(* the provenance comments of a sequence of lines, in order *)
RECURSIVE ProvsOf(_)
ProvsOf(lines) ==
    IF lines = <<>> THEN <<>>
    ELSE (IF IsProvLine(Head(lines)) THEN <<Head(lines)[1].num>> ELSE <<>>)
         \o ProvsOf(Tail(lines))

(* the custom ids of the candidates the pass had to append, in the order of
   the candidate list: the id names an emitted source rule and neither form
   of it is in the loaded index *)
RECURSIVE Due(_, _)
Due(cands, seen) ==
    IF cands = <<>> THEN <<>>
    ELSE LET r == Head(cands)
             due == /\ InDict(r.custom_id, extracted_rules)
                    /\ r.rule_id \notin existing_rules
                    /\ r.custom_id \notin existing_rules
                    /\ r.custom_id \notin seen
         IN  (IF due THEN <<r.custom_id>> ELSE <<>>)
             \o Due(Tail(cands), seen \cup {r.custom_id})

(* C21: a pass appends every candidate that names an eligible source rule
   and whose identifiers are absent from the index, all of them and in the
   order of the candidate list. *)
C21_AllCandidatesAppended ==
    PassDone =>
        ProvsOf(SubSeq(StoreFile.lines, Len(storeAtStart.lines) + 1, Len(StoreFile.lines)))
            = Due(sorted_rules, {})

(* the lines of a rule source the scan keeps: stripped, neither blank nor a
   comment, from the first line that starts a rule on *)
RECURSIVE Kept(_, _)
Kept(lines, started) ==
    IF lines = <<>> THEN <<>>
    ELSE LET line == Strip(Head(lines))
             drop == line = <<>> \/ line[1].k = "hash"
             now == started \/ (~drop /\ line[1].k = "SecRule")
         IN  (IF ~drop /\ now THEN <<line>> ELSE <<>>) \o Kept(Tail(lines), now)

(* C22: the block scan partitions its input: blank lines, comment lines and
   the lines before the first rule start are dropped; every block starts
   with a rule-start line and holds no other; the blocks put end to end are
   the kept lines, in order. *)
C22_ScanPartitions ==
    pc = "Filtered" =>
        LET blocks == ParseBlocks(rulesFile.lines)
        IN  /\ \A b \in 1..Len(blocks) :
                  /\ blocks[b] # <<>>
                  /\ blocks[b][1][1].k = "SecRule"
                  /\ \A i \in 2..Len(blocks[b]) : blocks[b][i][1].k # "SecRule"
            /\ Flatten(blocks) = Kept(rulesFile.lines, FALSE)

C22_Witness ==
    /\ pc = "Filtered"
    /\ Len(rulesFile.lines) = 2
    /\ Strip(rulesFile.lines[1]) # <<>>
    /\ Strip(rulesFile.lines[1])[1].k \notin {"hash", "SecRule"}
    /\ Len(ParseBlocks(rulesFile.lines)) = 1

(* C23: a record appended with its provenance marker and its body is found
   by the next load: the index built from the file holds the custom id and
   the original id of the record. *)
C23_AppendLoadRoundTrip ==
    pc = "Loaded" =>
        \A r \in Added : r.custom_id \in existing_rules /\ r.rule_id \in existing_rules

C23_Witness ==
    /\ pc = "Loaded"
    /\ storeAtStart = FileOf(<<>>)
    /\ \E r \in Added : r.rule_id = ID_B /\ r.custom_id = <<9, 9, 9>> \o ID_B
    /\ existing_rules = {ID_B, <<9, 9, 9>> \o ID_B}
    /\ IdSearch(SubSeq(StoreFile.lines, 3, Len(StoreFile.lines))) = {ID_B}

(* the positions (line, token) at which two blocks of the same shape differ *)
Changed(before, after) ==
    {<<i, j>> \in (1..Len(before)) \X (1..Len(Flatten(before))) :
        j <= Len(before[i]) /\ after[i][j] # before[i][j]}

(* C24: the identifier rewrite makes exactly one substitution in an emitted
   rule: one identifier declaration is replaced by the custom id and every
   other part of the block is left as it was. *)
C24_OneSubstitution ==
    \A r \in 1..Len(emitted) :
        LET before == emitted[r].rule
            after == emitted[r].namespaced
            changed == Changed(before, after)
        IN  /\ Len(after) = Len(before)
            /\ \A i \in 1..Len(before) : Len(after[i]) = Len(before[i])
            /\ Cardinality(changed) = 1
            /\ \A p \in changed :
                  /\ before[p[1]][p[2]].k = "id"
                  /\ after[p[1]][p[2]] = [before[p[1]][p[2]] EXCEPT !.num = emitted[r].custom_id]

(* C25: the identifier declared in the body stored for a record is the
   custom id of the record, for every form of declaration that the
   extraction pattern accepts, also with white space around the colon. *)
C25_BodyDeclaresCustomId ==
    \A r \in 1..Len(emitted) : IdSearch(emitted[r].adjusted_rule) = {emitted[r].custom_id}

(* C26: the index consulted in Diffing is the index of the store file the
   pass appends to: what the pass loads is what get_existing_rules finds in
   the store as it was when the pass started. *)
C26_IndexOfTheStore ==
    pc = "Diffing" => existing_rules = get_existing_rules(storeAtStart)

(* C27: update_rules reports a conflict in the store only when the store
   declares both forms of one rule: a store that declares an original id X
   and not 999X is not stopped at the conflict check. *)
C27_ConflictOnlyIfBoth ==
    upd.steps = <<"inspect", "read", "conflict">> => BothForms(IndexFile)

(***************************************************************************)
(* rules_metadata applied to a telemetry response (main.py line 64): the    *)
(* response is one document whose rules field holds up to MaxEntries        *)
(* entries, among them an entry of an id and of its 999 form, an entry of   *)
(* a low level, and the malformed entries: without rule_id, with a          *)
(* paranoia_level that is not a number, with a null paranoia_level.         *)
(***************************************************************************)
MaxEntries == 3

(* entries of rule A at level 3 and at level 1, of rule B, of the 999 form of
   A, and the malformed ones: no rule_id, a level that is not a number, a
   null level *)
MetaEntries ==
    {RuleData(ID_A, 3, "critical"),
     RuleData(ID_A, 1, "critical"),
     RuleData(ID_B, 4, "warning"),
     RuleData(ID_999A, 3, "critical"),
     [RuleData(ID_B, 3, "critical") EXCEPT !.has_id = FALSE],
     [RuleData(ID_B, 3, "critical") EXCEPT !.pl_kind = "text"],
     [RuleData(ID_B, 3, "critical") EXCEPT !.pl_kind = "null"]}

MetaResponses == {Response(<<Hit(1, rules)>>) : rules \in SeqsUpTo(MetaEntries, MaxEntries)}

InitMetadata ==
    /\ rulesFile = Unreadable
    /\ cwd = "base"
    /\ files = [d \in Dirs |-> NoFile]
    /\ exclusions = [d \in Dirs |-> NoFile]
    /\ pc = "Metadata"
    /\ rulesConf = NoFile
    /\ passNo = 0
    /\ es_response \in MetaResponses
    /\ extracted_rules = EmptyDict
    /\ emitted = <<>>
    /\ existing_rules = {}
    /\ sorted_rules = <<>>
    /\ idx = 1
    /\ added_rules_info = <<>>
    /\ new_rule_added = FALSE
    /\ trigger = "not_invoked"
    /\ upd = NotInvoked
    /\ fault = "none"
    /\ storeAtStart = NoFile
    /\ sameInputs = TRUE
    /\ nsArg = <<>>
    /\ nsRes = <<>>

RankRules ==
    /\ pc = "Metadata"
    /\ sorted_rules' = rules_metadata(es_response)
    /\ pc' = "Ranked"
    /\ UNCHANGED <<rulesFile, cwd, files, rulesConf, passNo, es_response, extracted_rules,
                   emitted, existing_rules, idx, added_rules_info, new_rule_added,
                   trigger, exclusions, upd, fault, storeAtStart, sameInputs, nsArg,
                   nsRes>>

NextMetadata == RankRules

SpecMetadata == InitMetadata /\ [][NextMetadata]_vars

(* the rule entries of a response, document after document *)
Reported(response) == Flatten(RulesTriggered(response.hits))

(* an entry with a rule_id and a paranoia level that is a number or absent *)
WellFormed(entry) == entry.has_id /\ entry.pl_kind \in {"int", "missing"}

(* the number of entries of rule_id reported with paranoia level 3 or higher *)
TriggerCount(response, rule_id) ==
    LET entries == Reported(response)
    IN  Cardinality({i \in 1..Len(entries) :
                        /\ WellFormed(entries[i])
                        /\ entries[i].rule_id = rule_id
                        /\ entries[i].pl_kind = "int"
                        /\ entries[i].paranoia_level >= min_tier})

(* the response with the malformed entries taken out *)
WithoutMalformed(response) ==
    [response EXCEPT !.hits = [i \in 1..Len(response.hits) |->
                                  [response.hits[i] EXCEPT
                                      !.rules = SelectSeq(@, WellFormed)]]]

NoDuplicates ==
    \A i, j \in 1..Len(sorted_rules) :
        i # j => sorted_rules[i].rule_id # sorted_rules[j].rule_id

OnlyHighTierOriginals ==
    \A i \in 1..Len(sorted_rules) :
        /\ TriggerCount(es_response, sorted_rules[i].rule_id) > 0
        /\ ~StartsWith999(sorted_rules[i].rule_id)

OrderedByCount ==
    \A i \in 1..Len(sorted_rules) : \A j \in 1..Len(sorted_rules) :
        i < j => sorted_rules[i].count >= sorted_rules[j].count

(* C28: the list rules_metadata returns holds each rule_id at most once, only
   rules reported with paranoia level 3 or higher and no id starting with
   999, and is ordered by non-increasing count. *)
C28_CandidateList ==
    pc = "Ranked" => NoDuplicates /\ OnlyHighTierOriginals /\ OrderedByCount

(* C29: the count of every rule of the returned list is the number of
   entries reported for its rule_id with paranoia level 3 or higher, also
   when an id and its 999 form are both reported, and a malformed entry only
   drops that entry: the list is the one of the response without it. *)
C29_CountIsTriggers ==
    pc = "Ranked" =>
        /\ \A i \in 1..Len(sorted_rules) :
              sorted_rules[i].count = TriggerCount(es_response, sorted_rules[i].rule_id)
        /\ sorted_rules = rules_metadata(WithoutMalformed(es_response))

(* C30: a failed read of the container's store does not stop update_rules:
   with the container running, the local store read and its conflict check
   passed, a call whose read of the container's store fails still registers
   the exclusions, issues the reload when the registration succeeded, and
   returns success when the reload succeeded. *)
C30_ContainerReadFailureGoesOn ==
    [][LET u == upd'
           added == add_rule_exclusions(u.rule_ids, exclusions[IndexDir], u.env.writable)
       IN  (/\ u.env.docker = "running"
            /\ IndexFile.exists
            /\ check_rule_id_conflicts(u.rule_ids)
            /\ ~u.env.container.exists)
           => /\ "exclusions" \in StepsOf(u)
              /\ exclusions'[IndexDir] = added.file
              /\ added.ok => "reload" \in StepsOf(u)
              /\ (added.ok /\ u.env.reload = "ok") => u.result = "True"]_vars

C30_Witness ==
    /\ IndexFile = Store_synced
    /\ upd.env.docker = "running"
    /\ ~upd.env.container.exists
    /\ upd.env.reload = "ok"
    /\ upd.steps = <<"inspect", "read", "cat", "exclusions", "reload">>
    /\ upd.result = "True"
    /\ Registered(exclusions[IndexDir]) = {ID_A}

====
